---- MODULE Spec2Model ----
(***************************************************************************)
(* moviweb_app: the Flask request handlers of app.py over the store of     *)
(* users and movies, and the OMDB enrichment call.                         *)
(*                                                                         *)
(* Python values are tagged tuples, so that values of different Python     *)
(* types can meet in one field: <<"NoneType">>, <<"str", s>>,              *)
(* <<"int", n>>, <<"float", t>> (t in tenths: 8.5 is 85), <<"dict", f>>.   *)
(***************************************************************************)
EXTENDS Integers, Sequences, FiniteSets, TLC

VARIABLES
    users,      \* ids of the rows of the User table
    movies,     \* rows of the Movie table (committed)
    request,    \* the request handled last, with what its environment answered
    response,   \* the response to it
    before,     \* the Movie table as it was when that request arrived
    trace,      \* what the handler of that request called, in order
    twice       \* that request repeats the request before it, which deleted a movie

vars == <<users, movies, request, response, before, trace, twice>>

\* ------------------------------------------------------------------ bounds

\* Movie ids the store may hold at once are "1" .. ToString(MaxMovies).
MaxMovies == 2

\* ----------------------------------------------------------- Python values

None == <<"NoneType">>
Str(s) == <<"str", s>>
PyInt(n) == <<"int", n>>
PyFloat(t) == <<"float", t>>
Dict(f) == <<"dict", f>>

IsNone(v) == v[1] = "NoneType"

\* dict.get(key): the value, or None when the key is missing.
DictGet(d, key) == IF key \in DOMAIN d[2] THEN d[2][key] ELSE None

\* Python truthiness of what fetch_movie_info returns: None and {} are falsy.
Truthy(v) == v[1] = "dict" /\ DOMAIN v[2] # {}

Returned(v) == [raised |-> FALSE, value |-> v, exc |-> "", msg |-> ""]
Raised(e, m) == [raised |-> TRUE, value |-> None, exc |-> e, msg |-> m]

\* The decimal literals the inputs use, with their values in tenths.
FloatLiterals == [s \in {"8.5", "8.3", "7.2"} |->
                    CASE s = "8.5" -> 85 [] s = "8.3" -> 83 [] OTHER -> 72]

IntLiterals == [s \in {"1998"} |-> 1998]

\* float(x): TypeError on None, ValueError on a string that is no number.
float(v) ==
    IF IsNone(v)
    THEN Raised("TypeError", "float() argument must be a string or a real number, not 'NoneType'")
    ELSE IF v[2] \in DOMAIN FloatLiterals
         THEN Returned(PyFloat(FloatLiterals[v[2]]))
         ELSE Raised("ValueError", "could not convert string to float")

\* int(x): TypeError on None, ValueError on a string that is no integer.
int(v) ==
    IF IsNone(v)
    THEN Raised("TypeError", "int() argument must be a string, a bytes-like object or a real number, not 'NoneType'")
    ELSE IF v[2] \in DOMAIN IntLiterals
         THEN Returned(PyInt(IntLiterals[v[2]]))
         ELSE Raised("ValueError", "invalid literal for int() with base 10")

\* ------------------------------------------------------------------ inputs

UserIds == {"1", "2"}
\* user ids a path may carry: "3" is no user
PathUserIds == UserIds \cup {"3"}

MovieIds == {ToString(i) : i \in 1..MaxMovies}
\* movie ids a path may carry: "99" is never a movie
PathMovieIds == MovieIds \cup {"99"}

Methods == {"GET", "POST"}

Titles == {"Alien"}

\* request.form of add_movie: the field 'name'
AddForms == {[name |-> Str(t)] : t \in Titles}

\* request.form of update_movie; a field the form lacks is None
UpdateForm(year, rating) ==
    [title |-> Str("Ronin"), director |-> Str("John Frankenheimer"),
     year |-> year, rating |-> rating]

UpdateForms ==
    {UpdateForm(Str("1998"), Str("7.2")), UpdateForm(Str("199x"), Str("7.2")),
     UpdateForm(Str("1998"), Str("good")), UpdateForm(None, Str("7.2"))}

NoForm == [name |-> None]

\* What the OMDB service may answer to one GET.
BodyAlien == Dict([Title |-> Str("Alien"), Director |-> Str("Ridley Scott"),
                   Year |-> Str("1979"), imdbRating |-> Str("8.5"),
                   Response |-> Str("True")])
BodyNotFound == Dict([Response |-> Str("False"), Error |-> Str("Movie not found!")])
BodyNoRating == Dict([Title |-> Str("Alien"), Director |-> Str("Ridley Scott"),
                      Year |-> Str("1979"), Response |-> Str("True")])
BodyBadRating == Dict([Title |-> Str("Alien"), Director |-> Str("Ridley Scott"),
                       Year |-> Str("1979"), imdbRating |-> Str("N/A"),
                       Response |-> Str("True")])
BodyEmpty == Dict(<<>>)

OkBodies == {BodyAlien, BodyNotFound, BodyNoRating, BodyBadRating, BodyEmpty}

ApiAnswers ==
    {[kind |-> "response", status_code |-> 200, json |-> b] : b \in OkBodies}
    \cup {[kind |-> "response", status_code |-> c, json |-> BodyNotFound] : c \in {401, 500}}
    \cup {[kind |-> "raise", status_code |-> 0, json |-> None]}

NoApi == [kind |-> "unused", status_code |-> 0, json |-> None]

\* --------------------------------------------------------------- responses

NoContext == <<"none">>

Render(template, status, error_message, context) ==
    [kind |-> "render", status |-> status, template |-> template,
     location |-> <<>>, error_message |-> error_message, context |-> context]

\* redirect(url_for('user_movies', user_id=user_id))
Redirect(user_id) ==
    [kind |-> "redirect", status |-> 302, template |-> "",
     location |-> <<"users", user_id>>, error_message |-> None,
     context |-> NoContext]

\* An exception no handler code catches: the framework answers 500.
Unhandled(e) ==
    [kind |-> "unhandled", status |-> 500, template |-> "",
     location |-> <<>>, error_message |-> Str(e.msg), context |-> NoContext]

\* -------------------------------------------------------------- enrichment

\* fetch_movie_info(movie_title) against the answer `api` of the service.
fetch_movie_info(movie_title, api) ==
    IF api.kind = "raise"
    THEN Raised("ConnectionError", "connection failed")
    ELSE IF api.status_code = 200
         THEN Returned(api.json)
         ELSE Returned(None)

\* ------------------------------------------------------------------- store

Ids(table) == {row.id : row \in table}

\* User.query.get(user_id): the user's object, or None
user_query_get(users_, user_id) ==
    IF user_id \in users_ THEN <<"User", user_id>> ELSE None

\* new_movie reading the keys 'director' and 'year', which the answer of
\* the service does not carry.
new_movie_lowercase_keys(movie_title, movie_data, rating) ==
    [title |-> movie_title,
     director |-> DictGet(movie_data, "director"),
     year |-> DictGet(movie_data, "year"),
     rating |-> rating]

\* Movie(title=..., director=..., year=..., rating=...): the fields of the
\* new row; its id and owner are set when it is attached and flushed.
new_movie(movie_title, movie_data, rating) ==
    [title |-> movie_title,
     director |-> DictGet(movie_data, "Director"),
     year |-> DictGet(movie_data, "Year"),
     rating |-> rating]

\* The row the store holds once `fields` is appended to user.movies and the
\* session is flushed: the relationship sets user_id, the table gives the id.
Attached(fields, user, new_id) ==
    [id |-> new_id, title |-> fields.title, director |-> fields.director,
     year |-> fields.year, rating |-> fields.rating, user_id |-> user[2]]

\* db.session.commit(): the pending rows are written, or (commit = "fail")
\* the database refuses and nothing is written.
session_commit(movies_, pending, commit) ==
    IF commit # "fail"
    THEN [raised |-> FALSE, exc |-> "", msg |-> "", movies |-> movies_ \cup pending]
    ELSE [raised |-> TRUE, exc |-> "OperationalError",
          msg |-> "(sqlite3.OperationalError) database is locked",
          movies |-> movies_]

\* ----------------------------------------------------------- add_movie

TryResult(raised, exc, msg, movies_, error_message, redirected, tr) ==
    [raised |-> raised, exc |-> exc, msg |-> msg, movies |-> movies_,
     error_message |-> error_message, redirected |-> redirected, trace |-> tr]

\* The branch of add_movie for a truthy movie_data: build the movie, attach
\* it to the user, commit, redirect.
add_movie_store(user, movie_title, movie_data, commit, new_id, movies_) ==
    LET rating == float(DictGet(movie_data, "imdbRating"))
    IN  IF rating.raised
        THEN TryResult(TRUE, rating.exc, rating.msg, movies_, None, FALSE,
                       <<"float">>)
        ELSE LET fields == new_movie(movie_title, movie_data, rating.value)
                 pending == {Attached(fields, user, new_id)}
                 done == session_commit(movies_, pending, commit)
                 tr == <<"float", "Movie", "user.movies.append", "db.session.commit">>
             IN  IF done.raised
                 THEN TryResult(TRUE, done.exc, done.msg, done.movies, None, FALSE, tr)
                 ELSE TryResult(FALSE, "", "", done.movies, None, TRUE,
                                tr \o <<"redirect">>)

\* The branch of add_movie for a user that exists: ask OMDB, then store.
add_movie_found(user, movie_title, api, commit, new_id, movies_) ==
    LET fetched == fetch_movie_info(movie_title, api)
    IN  IF fetched.raised
        THEN TryResult(TRUE, fetched.exc, fetched.msg, movies_, None, FALSE,
                       <<"fetch_movie_info">>)
        ELSE IF Truthy(fetched.value)
             THEN LET r == add_movie_store(user, movie_title, fetched.value,
                                           commit, new_id, movies_)
                  IN  [r EXCEPT !.trace = <<"fetch_movie_info">> \o @]
             ELSE TryResult(FALSE, "", "", movies_, Str("Movie not found on OMDB"),
                            FALSE, <<"fetch_movie_info">>)

\* add_movie_try with the else of the user check lost: no error is set for
\* a user that does not exist.
add_movie_try_no_else(user_id, movie_title, api, commit, new_id, users_, movies_) ==
    LET user == user_query_get(users_, user_id)
    IN  IF ~IsNone(user)
        THEN LET r == add_movie_found(user, movie_title, api, commit, new_id, movies_)
             IN  [r EXCEPT !.trace = <<"User.query.get">> \o @]
        ELSE TryResult(FALSE, "", "", movies_, None, FALSE, <<"User.query.get">>)

\* add_movie_try without the user lookup: the movie is stored under the user
\* id of the path.
add_movie_try_unchecked(user_id, movie_title, api, commit, new_id, users_, movies_) ==
    add_movie_found(<<"User", user_id>>, movie_title, api, commit, new_id, movies_)

\* add_movie_try asking the service before it looks the user up.
add_movie_try_fetch_first(user_id, movie_title, api, commit, new_id, users_, movies_) ==
    LET fetched == fetch_movie_info(movie_title, api)
        user == user_query_get(users_, user_id)
        tr == <<"fetch_movie_info", "User.query.get">>
    IN  IF fetched.raised
        THEN TryResult(TRUE, fetched.exc, fetched.msg, movies_, None, FALSE,
                       <<"fetch_movie_info">>)
        ELSE IF IsNone(user)
             THEN TryResult(FALSE, "", "", movies_, Str("User not found"), FALSE, tr)
             ELSE IF Truthy(fetched.value)
                  THEN LET r == add_movie_store(user, movie_title, fetched.value,
                                                commit, new_id, movies_)
                       IN  [r EXCEPT !.trace = tr \o @]
                  ELSE TryResult(FALSE, "", "", movies_,
                                 Str("Movie not found on OMDB"), FALSE, tr)

\* The try block of add_movie.
add_movie_try(user_id, movie_title, api, commit, new_id, users_, movies_) ==
    LET user == user_query_get(users_, user_id)
    IN  IF ~IsNone(user)
        THEN LET r == add_movie_found(user, movie_title, api, commit, new_id, movies_)
             IN  [r EXCEPT !.trace = <<"User.query.get">> \o @]
        ELSE TryResult(FALSE, "", "", movies_, Str("User not found"), FALSE,
                       <<"User.query.get">>)

\* The except clause without the rollback.
add_movie_except_no_rollback(r) ==
    [r EXCEPT !.error_message = Str(r.msg)]

\* except Exception as e: roll back and show str(e).
add_movie_except(r) ==
    [r EXCEPT !.error_message = Str(r.msg),
              !.trace = @ \o <<"db.session.rollback">>]

Handled(movies_, resp, tr) == [movies |-> movies_, response |-> resp, trace |-> tr]

\* add_movie(user_id) for one request.
add_movie(method, user_id, form, api, commit, new_id, users_, movies_) ==
    IF method = "POST"
    THEN LET movie_title == form.name
             t == add_movie_try(user_id, movie_title, api, commit, new_id,
                                users_, movies_)
             r == IF t.raised THEN add_movie_except(t) ELSE t
         IN  IF r.redirected
             THEN Handled(r.movies, Redirect(user_id), r.trace)
             ELSE Handled(r.movies,
                          Render("add_movie.html", 200, r.error_message, NoContext),
                          r.trace \o <<"render_template">>)
    ELSE Handled(movies_, Render("add_movie.html", 200, None, NoContext),
                 <<"render_template">>)

\* ------------------------------------------------------ data access layer
\* SQLiteDataManager: its operations as the specification's section 4.1
\* gives them.

\* list_all_users(): every user
list_all_users(users_) == users_

\* get_user_movies(user_id): the user's movies; empty when there is no such user
get_user_movies(user_id, movies_) == {row \in movies_ : row.user_id = user_id}

\* get_movie(user_id, movie_id): lookup by movie id; None when absent
get_movie(user_id, movie_id, movies_) ==
    IF movie_id \in Ids(movies_)
    THEN <<"Movie", CHOOSE row \in movies_ : row.id = movie_id>>
    ELSE None

\* update_movie(user_id, movie_id, updated_movie): overwrites the four fields
\* of the movie; for an id that is no movie it does nothing, or raises
\* (on_missing = "raise").
dm_update_movie(user_id, movie_id, updated_movie, on_missing, movies_) ==
    IF movie_id \in Ids(movies_)
    THEN [raised |-> FALSE, exc |-> "", msg |-> "",
          movies |-> {IF row.id = movie_id
                      THEN [row EXCEPT !.title = updated_movie.title,
                                       !.director = updated_movie.director,
                                       !.year = updated_movie.year,
                                       !.rating = updated_movie.rating]
                      ELSE row : row \in movies_}]
    ELSE IF on_missing = "raise"
         THEN [raised |-> TRUE, exc |-> "AttributeError",
               msg |-> "'NoneType' object has no attribute 'title'",
               movies |-> movies_]
         ELSE [raised |-> FALSE, exc |-> "", msg |-> "", movies |-> movies_]

\* delete_movie(user_id, movie_id): removes the movie; no error when absent
dm_delete_movie(user_id, movie_id, movies_) ==
    {row \in movies_ : row.id # movie_id}

\* ------------------------------------------------------- the other views

\* home()
home == Render("home.html", 200, None, NoContext)

\* list_users()
list_users(users_) ==
    Render("users.html", 200, None, <<"users", list_all_users(users_)>>)

\* user_movies(user_id)
user_movies(user_id, movies_) ==
    Render("user_movies.html", 200, None,
           <<"movies", get_user_movies(user_id, movies_)>>)

\* updated_movie_of with 'director' read from the form's title field.
updated_movie_of_title_twice(form) ==
    LET year == int(form.year)
        rating == float(form.rating)
    IN  IF year.raised THEN [raised |-> TRUE, exc |-> year.exc, msg |-> year.msg,
                             value |-> None, trace |-> <<"int">>]
        ELSE IF rating.raised
             THEN [raised |-> TRUE, exc |-> rating.exc, msg |-> rating.msg,
                   value |-> None, trace |-> <<"int", "float">>]
             ELSE [raised |-> FALSE, exc |-> "", msg |-> "",
                   value |-> [title |-> form.title, director |-> form.title,
                              year |-> year.value, rating |-> rating.value],
                   trace |-> <<"int", "float">>]

\* The dict update_movie builds from the form: its entries are evaluated in
\* order, so int(year) raises before float(rating) is tried.
updated_movie_of(form) ==
    LET year == int(form.year)
        rating == float(form.rating)
    IN  IF year.raised THEN [raised |-> TRUE, exc |-> year.exc, msg |-> year.msg,
                             value |-> None, trace |-> <<"int">>]
        ELSE IF rating.raised
             THEN [raised |-> TRUE, exc |-> rating.exc, msg |-> rating.msg,
                   value |-> None, trace |-> <<"int", "float">>]
             ELSE [raised |-> FALSE, exc |-> "", msg |-> "",
                   value |-> [title |-> form.title, director |-> form.director,
                              year |-> year.value, rating |-> rating.value],
                   trace |-> <<"int", "float">>]

\* update_movie(user_id, movie_id) for one request. Nothing in it catches an
\* exception: one raised here leaves the handler.
update_movie(method, user_id, movie_id, form, on_missing, movies_) ==
    IF method = "POST"
    THEN LET updated_movie == updated_movie_of(form)
         IN  IF updated_movie.raised
             THEN Handled(movies_, Unhandled(updated_movie), updated_movie.trace)
             ELSE LET done == dm_update_movie(user_id, movie_id,
                                              updated_movie.value, on_missing, movies_)
                      tr == updated_movie.trace \o <<"data_manager.update_movie">>
                  IN  IF done.raised
                      THEN Handled(done.movies, Unhandled(done), tr)
                      ELSE Handled(done.movies, Redirect(user_id), tr \o <<"redirect">>)
    ELSE Handled(movies_,
                 Render("update_movie.html", 200, None,
                        <<"movie", get_movie(user_id, movie_id, movies_)>>),
                 <<"data_manager.get_movie", "render_template">>)

\* delete_movie answering 404 for an id that is no movie.
delete_movie_or_404(user_id, movie_id, movies_) ==
    IF movie_id \in Ids(movies_)
    THEN Handled(dm_delete_movie(user_id, movie_id, movies_), Redirect(user_id),
                 <<"data_manager.delete_movie", "redirect">>)
    ELSE Handled(movies_, Render("404.html", 404, None, NoContext),
                 <<"data_manager.get_movie", "render_template">>)

\* delete_movie(user_id, movie_id)
delete_movie(user_id, movie_id, movies_) ==
    Handled(dm_delete_movie(user_id, movie_id, movies_), Redirect(user_id),
            <<"data_manager.delete_movie", "redirect">>)

\* page_not_found without the status: the 404 page goes out with 200.
page_not_found_200 == Render("404.html", 200, None, NoContext)

\* page_not_found(e): the 404 page, with status 404
page_not_found == Render("404.html", 404, None, NoContext)

\* ------------------------------------------------------------------ routing

Lit(s) == [var |-> FALSE, s |-> s]
Var(s) == [var |-> TRUE, s |-> s]

Rule(pattern, methods, endpoint) ==
    [pattern |-> pattern, methods |-> methods, endpoint |-> endpoint]

\* The rules the @app.route decorators register. A rule without methods=
\* answers GET.
url_map ==
    {Rule(<<>>, {"GET"}, "home"),
     Rule(<<Lit("users")>>, {"GET"}, "list_users"),
     Rule(<<Lit("users"), Var("user_id")>>, {"GET"}, "user_movies"),
     Rule(<<Lit("users"), Var("user_id"), Lit("add_movie")>>,
          {"GET", "POST"}, "add_movie"),
     Rule(<<Lit("users"), Var("user_id"), Lit("update_movie"), Var("movie_id")>>,
          {"GET", "POST"}, "update_movie"),
     Rule(<<Lit("users"), Var("user_id"), Lit("delete_movie"), Var("movie_id")>>,
          {"GET"}, "delete_movie")}

\* A path is the sequence of its segments: /users/1 is <<"users", "1">>.
Matches(path, pattern) ==
    /\ Len(path) = Len(pattern)
    /\ \A i \in 1..Len(pattern) : pattern[i].var \/ pattern[i].s = path[i]

Matching(path) == {r \in url_map : Matches(path, r.pattern)}

\* The blueprint registered under /api owns the paths below it.
UnderApi(path) == Len(path) > 0 /\ path[1] = "api"

\* The endpoint a request is dispatched to: a view, the blueprint, or the
\* 404 or 405 error.
Dispatch(method, path) ==
    IF Matching(path) # {}
    THEN IF \E r \in Matching(path) : method \in r.methods
         THEN (CHOOSE r \in Matching(path) : method \in r.methods).endpoint
         ELSE "405"
    ELSE IF UnderApi(path) THEN "api" ELSE "404"

\* The paths requests are made to: every shape of a registered rule, and
\* paths that miss the rules by a segment.
Paths ==
    {<<>>, <<"users">>, <<"user">>, <<"index.html">>, <<"api", "users">>,
     <<"users", "1", "movies">>, <<"users", "1", "update_movie">>,
     <<"users", "1", "add_movie", "new">>, <<"users", "2", "remove_movie", "1">>,
     <<"users", "1", "delete_movie", "1", "confirm">>}
    \cup {<<"users", u>> : u \in PathUserIds}
    \cup {<<"users", u, "add_movie">> : u \in PathUserIds}
    \cup {<<"users", u, w, m>> : u \in PathUserIds,
                                 w \in {"update_movie", "delete_movie"},
                                 m \in PathMovieIds}

Endpoints ==
    {"home", "list_users", "user_movies", "add_movie", "update_movie",
     "delete_movie", "api", "404", "405"}

\* The requests (method and path) each endpoint gets.
Routed ==
    [e \in Endpoints |->
        {mp \in Methods \X Paths : Dispatch(mp[1], mp[2]) = e}]

\* ----------------------------------------------------------------- requests

Called(tr, name) == \E i \in 1..Len(tr) : tr[i] = name

NoUpdateForm == UpdateForm(None, None)

\* The request on record: what was asked, and what the environment answered
\* where the handler asked it ("unused" where it did not).
Req(endpoint, mp, form, api, commit, on_missing) ==
    [endpoint |-> endpoint, method |-> mp[1], path |-> mp[2],
     user_id |-> IF Len(mp[2]) >= 2 THEN mp[2][2] ELSE "",
     movie_id |-> IF Len(mp[2]) >= 4 THEN mp[2][4] ELSE "",
     form |-> form, api |-> api, commit |-> commit, on_missing |-> on_missing]

Init ==
    /\ users = UserIds
    /\ movies = {}
    /\ request = Req("none", <<"GET", <<>>>>, NoForm, NoApi, "unused", "unused")
    /\ response = Render("", 0, None, NoContext)
    /\ before = {}
    /\ trace = <<>>
    /\ twice = FALSE

Home ==
    \E mp \in Routed["home"] :
        /\ request' = Req("home", mp, NoForm, NoApi, "unused", "unused")
        /\ response' = home
        /\ before' = movies
        /\ trace' = <<"render_template">>
        /\ twice' = FALSE
        /\ UNCHANGED <<users, movies>>

ListUsers ==
    \E mp \in Routed["list_users"] :
        /\ request' = Req("list_users", mp, NoForm, NoApi, "unused", "unused")
        /\ response' = list_users(users)
        /\ before' = movies
        /\ trace' = <<"data_manager.list_all_users", "render_template">>
        /\ twice' = FALSE
        /\ UNCHANGED <<users, movies>>

UserMovies ==
    \E mp \in Routed["user_movies"] :
        /\ request' = Req("user_movies", mp, NoForm, NoApi, "unused", "unused")
        /\ response' = user_movies(mp[2][2], movies)
        /\ before' = movies
        /\ trace' = <<"data_manager.get_user_movies", "render_template">>
        /\ twice' = FALSE
        /\ UNCHANGED <<users, movies>>

\* Whether add_movie, handling this request, asks OMDB at all.
AsksApi(method, user_id, form) ==
    Called(add_movie(method, user_id, form, NoApi, "unused", "0", users, movies).trace,
           "fetch_movie_info")

\* Whether add_movie, handling this request with this answer, commits.
Commits(method, user_id, form, api) ==
    Called(add_movie(method, user_id, form, api, "unused", "0", users, movies).trace,
           "db.session.commit")

\* GET or POST /users/<user_id>/add_movie. The environment answers what the
\* handler asks: OMDB the GET, the database the commit, giving the new row
\* an id no row has. The table holds at most MaxMovies rows.
AddMovie ==
    \E mp \in Routed["add_movie"] :
    \E form \in IF mp[1] = "POST" THEN AddForms ELSE {NoForm} :
    \E api \in IF AsksApi(mp[1], mp[2][2], form) THEN ApiAnswers ELSE {NoApi} :
    \E commit \in IF Commits(mp[1], mp[2][2], form, api)
                  THEN {"ok", "fail"} ELSE {"unused"} :
    \E new_id \in IF commit = "ok" THEN MovieIds \ Ids(movies) ELSE {"0"} :
        LET run == add_movie(mp[1], mp[2][2], form, api, commit, new_id,
                             users, movies)
        IN  /\ request' = Req("add_movie", mp, form, api, commit, "unused")
            /\ response' = run.response
            /\ movies' = run.movies
            /\ before' = movies
            /\ trace' = run.trace
            /\ twice' = FALSE
            /\ UNCHANGED users

\* GET or POST /users/<user_id>/update_movie/<movie_id>. What the data
\* access layer does for an id that is no movie is the environment's choice.
UpdateMovie ==
    \E mp \in Routed["update_movie"] :
    \E form \in IF mp[1] = "POST" THEN UpdateForms ELSE {NoUpdateForm} :
    \E on_missing \in
        IF Called(update_movie(mp[1], mp[2][2], mp[2][4], form, "silent", movies).trace,
                  "data_manager.update_movie")
           /\ mp[2][4] \notin Ids(movies)
        THEN {"silent", "raise"} ELSE {"unused"} :
        LET run == update_movie(mp[1], mp[2][2], mp[2][4], form, on_missing, movies)
        IN  /\ request' = Req("update_movie", mp, form, NoApi, "unused", on_missing)
            /\ response' = run.response
            /\ movies' = run.movies
            /\ before' = movies
            /\ trace' = run.trace
            /\ twice' = FALSE
            /\ UNCHANGED users

\* GET /users/<user_id>/delete_movie/<movie_id>
DeleteMovie ==
    \E mp \in Routed["delete_movie"] :
        LET run == delete_movie(mp[2][2], mp[2][4], movies)
        IN  /\ request' = Req("delete_movie", mp, NoForm, NoApi, "unused", "unused")
            /\ response' = run.response
            /\ movies' = run.movies
            /\ before' = movies
            /\ trace' = run.trace
            /\ twice' = (/\ request.endpoint = "delete_movie"
                         /\ request.path = mp[2]
                         /\ request.movie_id \in Ids(before))
            /\ UNCHANGED users

\* A request no rule matches: the 404 error, handled by page_not_found.
NotFound ==
    \E mp \in Routed["404"] :
        /\ request' = Req("404", mp, NoForm, NoApi, "unused", "unused")
        /\ response' = page_not_found
        /\ before' = movies
        /\ trace' = <<"render_template">>
        /\ twice' = FALSE
        /\ UNCHANGED <<users, movies>>

MethodNotAllowedResponse ==
    [kind |-> "abort", status |-> 405, template |-> "", location |-> <<>>,
     error_message |-> None, context |-> NoContext]

\* A request to a rule that does not take its method: the framework's 405.
MethodNotAllowed ==
    \E mp \in Routed["405"] :
        /\ request' = Req("405", mp, NoForm, NoApi, "unused", "unused")
        /\ response' = MethodNotAllowedResponse
        /\ before' = movies
        /\ trace' = <<>>
        /\ twice' = FALSE
        /\ UNCHANGED <<users, movies>>

ApiResponse ==
    [kind |-> "api", status |-> 200, template |-> "", location |-> <<>>,
     error_message |-> None, context |-> NoContext]

\* A request below /api: the blueprint answers it, or has no such route.
Api ==
    \E mp \in Routed["api"], known \in BOOLEAN :
        /\ request' = Req("api", mp, NoForm, NoApi, "unused", "unused")
        /\ response' = IF known THEN ApiResponse ELSE page_not_found
        /\ before' = movies
        /\ trace' = <<>>
        /\ twice' = FALSE
        /\ UNCHANGED <<users, movies>>

Next ==
    \/ Home
    \/ ListUsers
    \/ UserMovies
    \/ AddMovie
    \/ UpdateMovie
    \/ DeleteMovie
    \/ NotFound
    \/ MethodNotAllowed
    \/ Api

Spec == Init /\ [][Next]_vars

\* ------------------------------------------------------------------ claims

AddPost == request.endpoint = "add_movie" /\ request.method = "POST"

UpdatePost == request.endpoint = "update_movie" /\ request.method = "POST"

IsNumber(v) == ~IsNone(v) /\ v[1] = "str" /\ v[2] \in DOMAIN FloatLiterals

IsInteger(v) == ~IsNone(v) /\ v[1] = "str" /\ v[2] \in DOMAIN IntLiterals

\* The service resolved the title: success status, and a body carrying
\* Director, Year and a numeric imdbRating.
Resolved(api) ==
    /\ api.kind = "response"
    /\ api.status_code = 200
    /\ {"Director", "Year", "imdbRating"} \subseteq DOMAIN api.json[2]
    /\ IsNumber(api.json[2]["imdbRating"])

\* The store is the store before the request plus one movie owned by the
\* request's user, with the director, year and rating of the API's answer.
OneMovieAdded ==
    \E row \in movies :
        /\ row.id \notin Ids(before)
        /\ movies = before \cup {row}
        /\ row.user_id = request.user_id
        /\ row.director = request.api.json[2]["Director"]
        /\ row.year = request.api.json[2]["Year"]
        /\ row.rating = PyFloat(FloatLiterals[request.api.json[2]["imdbRating"][2]])

\* C1 as stated: a POST to add_movie for an existing user whose title the API
\* resolves ends in a redirect to the user's movie list, with exactly one
\* movie added, owned by the user and carrying the API's director, year and
\* rating.
C1_AsStated ==
    (AddPost /\ request.user_id \in users /\ Resolved(request.api))
        => (response = Redirect(request.user_id) /\ OneMovieAdded)

\* C1 amended: the same, for the requests whose commit the database accepts.
C1_AddResolved ==
    (AddPost /\ request.user_id \in users /\ Resolved(request.api)
        /\ request.commit = "ok")
        => (response = Redirect(request.user_id) /\ OneMovieAdded)

C1_Witness ==
    /\ AddPost /\ Resolved(request.api) /\ request.commit = "ok"
    /\ response.kind = "redirect"
    /\ before # {}
    /\ Cardinality(movies) = Cardinality(before) + 1

\* C2: a POST to add_movie for a user id that is no user leaves the users and
\* the movies as they were and renders the add form again with the error
\* "User not found", with no redirect.
C2_UnknownUser ==
    [][(request'.endpoint = "add_movie" /\ request'.method = "POST"
            /\ request'.user_id \notin users)
        => (/\ users' = users
            /\ movies' = movies
            /\ response' = Render("add_movie.html", 200, Str("User not found"),
                                  NoContext))]_vars

C2_Witness ==
    /\ AddPost /\ request.user_id \notin users
    /\ response.error_message = Str("User not found")
    /\ movies # {}

\* The service could not resolve the title: a status that is no success, or a
\* success status whose body says the movie was not found.
Unresolved(api) ==
    /\ api.kind = "response"
    /\ \/ api.status_code # 200
       \/ DictGet(api.json, "Response") = Str("False")

\* C3: a POST to add_movie for an existing user with a title the API cannot
\* resolve leaves the store as it was and shows "Movie not found on OMDB",
\* for a non-success status and for a success status whose body reports that
\* the movie was not found.
C3_Unresolved ==
    (AddPost /\ request.user_id \in users /\ Unresolved(request.api))
        => (/\ movies = before
            /\ response = Render("add_movie.html", 200,
                                 Str("Movie not found on OMDB"), NoContext))

WellFormed(form) == IsInteger(form.year) /\ IsNumber(form.rating)

\* C4: a POST to update_movie for an existing movie with a well-formed form
\* leaves that movie with exactly the submitted title, director, year and
\* rating, every other movie as it was, and redirects to the user's list.
C4_Update ==
    (UpdatePost /\ request.movie_id \in Ids(before) /\ WellFormed(request.form))
        => (/\ \E row \in movies :
                /\ row.id = request.movie_id
                /\ row.title = request.form.title
                /\ row.director = request.form.director
                /\ row.year = PyInt(IntLiterals[request.form.year[2]])
                /\ row.rating = PyFloat(FloatLiterals[request.form.rating[2]])
            /\ Cardinality({row \in movies : row.id = request.movie_id}) = 1
            /\ {row \in movies : row.id # request.movie_id}
                   = {row \in before : row.id # request.movie_id}
            /\ response = Redirect(request.user_id))

C4_Witness ==
    /\ UpdatePost /\ request.movie_id \in Ids(before) /\ WellFormed(request.form)
    /\ \E r1, r2 \in movies :
        r1.id = request.movie_id /\ r2.id # r1.id /\ r2.user_id # r1.user_id
    /\ movies # before

EveryMovieOwned == \A row \in movies : row.user_id \in users

IdsUnique == \A r1, r2 \in movies : r1.id = r2.id => r1 = r2

OwnerKept ==
    \A r1 \in movies : \A r2 \in movies' : r1.id = r2.id => r1.user_id = r2.user_id

\* C6: in every reachable state every movie has an owner that is a user of
\* the store and no two movies share an id, and no request changes the owner
\* of a movie that stays in the store.
C6_Ownership == [](EveryMovieOwned /\ IdsUnique) /\ [][OwnerKept]_vars

C6_Witness ==
    /\ UpdatePost /\ response.kind = "redirect"
    /\ \E row \in movies : row.id = request.movie_id /\ row.user_id # request.user_id
    /\ \E r1, r2 \in movies : r1.user_id # r2.user_id

\* An exception is raised while add_movie handles the request: the call to
\* the service fails, the rating of a truthy body is missing or no number, or
\* the commit fails.
AddRaises ==
    /\ AddPost
    /\ request.user_id \in users
    /\ \/ request.api.kind = "raise"
       \/ /\ request.api.kind = "response" /\ request.api.status_code = 200
          /\ Truthy(request.api.json)
          /\ ~IsNumber(DictGet(request.api.json, "imdbRating"))
       \/ request.commit = "fail"

\* C7: when an exception is raised while add_movie handles a POST, the
\* session is rolled back, the store holds the movies it held before, and
\* the response is the add form with an error message, not a redirect.
C7_Rollback ==
    AddRaises
        => (/\ Called(trace, "db.session.rollback")
            /\ movies = before
            /\ response.kind = "render"
            /\ response.template = "add_movie.html"
            /\ ~IsNone(response.error_message))

C7_Witness ==
    /\ AddRaises /\ request.commit = "fail"
    /\ before # {}
    /\ Called(trace, "db.session.rollback")

\* C8: a POST to update_movie whose year is no integer or whose rating is no
\* number is answered with an input-validation error, never with an
\* exception that leaves the handler.
C8_Validation ==
    (UpdatePost /\ ~WellFormed(request.form))
        => (response.kind # "unhandled" /\ response.status \in 400..499)

\* The path has the shape of one of the registered routes.
Registered(path) ==
    \/ path = <<>>
    \/ path = <<"users">>
    \/ Len(path) = 2 /\ path[1] = "users"
    \/ Len(path) = 3 /\ path[1] = "users" /\ path[3] = "add_movie"
    \/ Len(path) = 4 /\ path[1] = "users"
          /\ path[3] \in {"update_movie", "delete_movie"}

\* C9: a request whose path matches no registered route and is not below
\* /api is answered with the 404 view and status 404.
C9_NotFound ==
    (request.endpoint # "none" /\ ~Registered(request.path) /\ ~UnderApi(request.path))
        => (/\ response.kind = "render"
            /\ response.template = "404.html"
            /\ response.status = 404)

C9_Witness ==
    /\ request.endpoint = "404"
    /\ ~Registered(request.path)
    /\ Len(request.path) >= 4
    /\ response.status = 404

Count(tr, name) == Cardinality({i \in 1..Len(tr) : tr[i] = name})

Index(tr, name) == CHOOSE i \in 1..Len(tr) : tr[i] = name

Precedes(tr, a, b) == Called(tr, a) /\ Called(tr, b) /\ Index(tr, a) < Index(tr, b)

\* C10: handling one add_movie request, the service is asked at most once,
\* only on POST and only after the user lookup has found the user, and the
\* store is written (movie attached, commit) only after the service's answer
\* has come back.
C10_CallOrder ==
    request.endpoint = "add_movie"
        => (/\ Count(trace, "fetch_movie_info") <= 1
            /\ Called(trace, "fetch_movie_info")
                => (/\ request.method = "POST"
                    /\ request.user_id \in users
                    /\ Precedes(trace, "User.query.get", "fetch_movie_info"))
            /\ Called(trace, "user.movies.append")
                => (/\ request.api.kind = "response"
                    /\ Precedes(trace, "fetch_movie_info", "user.movies.append"))
            /\ Called(trace, "db.session.commit")
                => Precedes(trace, "user.movies.append", "db.session.commit")
            /\ movies # before => Called(trace, "db.session.commit"))

C10_Witness ==
    /\ request.endpoint = "add_movie"
    /\ Called(trace, "db.session.commit")
    /\ movies # before

====
